---- MODULE Spec2Model ----
(***************************************************************************)
(* Model of the TOC hierarchy extraction of streamlit_app.py:              *)
(* display_toc_hierarchical, extract_subtopics_from_toc and                *)
(* extract_subnodes_from_toc, with the defensive helpers they rest on.     *)
(*                                                                         *)
(* A JSON-like Python value is a tagged record:                            *)
(*   [k |-> "none"]                 None                                   *)
(*   [k |-> "bool",  b |-> ...]     True / False                           *)
(*   [k |-> "int",   n |-> ...]     an int                                 *)
(*   [k |-> "float", t |-> ...]     a float, t = the value in tenths       *)
(*   [k |-> "str",   s |-> ...]     a str                                  *)
(*   [k |-> "list",  l |-> <<..>>]  a list                                 *)
(*   [k |-> "dict",  keys |-> <<..>>, d |-> [key |-> value]]               *)
(*                                  a dict; keys is its insertion order    *)
(***************************************************************************)
EXTENDS Integers, Sequences, FiniteSets, TLC

VARIABLES
    doc,          \* the TOC document handed to the function called
    hours,        \* the course_hours handed to display_toc_hierarchical
    op,           \* the function called last, "none" before any call
    out,          \* what that call showed or returned
    arg_value,    \* the value handed to a defensive helper
    arg_max_len,  \* the max_len handed to safe_str
    result,       \* what the helper returned
    toc_response,               \* st.session_state.toc_response
    script_response,            \* st.session_state.script_response
    toc_request_in_progress,    \* st.session_state.toc_request_in_progress
    script_request_in_progress, \* st.session_state.script_request_in_progress
    pc,           \* where the session's script run stands: "idle" between
                  \* runs, "toc_sent" / "script_sent" inside asyncio.run(...)
    last_call,    \* what the last asyncio.run(...) returned or raised
    batch         \* the Generate Scripts run in flight: the widget values it
                  \* read and the payload it sent; NoBatch outside such a run

helperVars == <<arg_value, arg_max_len, result>>

tocVars == <<doc, hours, op, out>>

sessionVars == <<toc_response, script_response, toc_request_in_progress,
                 script_request_in_progress, pc, last_call, batch>>

vars == <<doc, hours, op, out, helperVars, sessionVars>>

----------------------------------------------------------------------------
(* Python values *)

PyNone == [k |-> "none"]
PyBool(b) == [k |-> "bool", b |-> b]
PyInt(n) == [k |-> "int", n |-> n]
PyFloat(t) == [k |-> "float", t |-> t]
PyStr(s) == [k |-> "str", s |-> s]
PyList(l) == [k |-> "list", l |-> l]
PyDict(keys, d) == [k |-> "dict", keys |-> keys, d |-> d]
EmptyDict == PyDict(<<>>, <<>>)
EmptyStr == PyStr("")

\* isinstance(v, list), isinstance(v, dict), isinstance(v, int),
\* isinstance(v, (int, float)); bool is a subclass of int
IsList(v) == v.k = "list"
IsDict(v) == v.k = "dict"
IsInt(v) == v.k \in {"int", "bool"}
IsNumber(v) == v.k \in {"int", "bool", "float"}

\* bool(v): the truth value Python gives v in `if v`, `a or b`
Truthy(v) ==
    CASE v.k = "none" -> FALSE
      [] v.k = "bool" -> v.b
      [] v.k = "int" -> v.n # 0
      [] v.k = "float" -> v.t # 0
      [] v.k = "str" -> v.s # ""
      [] v.k = "list" -> v.l # <<>>
      [] v.k = "dict" -> v.keys # <<>>

\* a or b
PyOr(a, b) == IF Truthy(a) THEN a ELSE b

\* d.get(key, default) on a dict d
Get(d, key, default) == IF key \in DOMAIN d.d THEN d.d[key] ELSE default

Digits == <<"0", "1", "2", "3", "4", "5", "6", "7", "8", "9">>

RECURSIVE NatToStr(_)
NatToStr(n) ==
    IF n < 10 THEN Digits[n + 1] ELSE NatToStr(n \div 10) \o Digits[(n % 10) + 1]

\* str(n) of an int
IntToStr(n) == IF n < 0 THEN "-" \o NatToStr(-n) ELSE NatToStr(n)

\* str(x) of a float held in tenths
FloatToStr(t) ==
    IF t < 0 THEN "-" \o NatToStr((-t) \div 10) \o "." \o Digits[((-t) % 10) + 1]
    ELSE NatToStr(t \div 10) \o "." \o Digits[(t % 10) + 1]

RECURSIVE PyRepr(_)
RECURSIVE ReprItems(_, _)
RECURSIVE ReprPairs(_, _)
\* repr(v): what str() shows of a value nested in a list or a dict
PyRepr(v) ==
    CASE v.k = "none" -> "None"
      [] v.k = "bool" -> IF v.b THEN "True" ELSE "False"
      [] v.k = "int" -> IntToStr(v.n)
      [] v.k = "float" -> FloatToStr(v.t)
      [] v.k = "str" -> "'" \o v.s \o "'"
      [] v.k = "list" -> "[" \o ReprItems(v.l, 1) \o "]"
      [] v.k = "dict" -> "{" \o ReprPairs(v, 1) \o "}"
ReprItems(l, i) ==
    IF i > Len(l) THEN ""
    ELSE (IF i > 1 THEN ", " ELSE "") \o PyRepr(l[i]) \o ReprItems(l, i + 1)
ReprPairs(d, i) ==
    IF i > Len(d.keys) THEN ""
    ELSE (IF i > 1 THEN ", " ELSE "") \o "'" \o d.keys[i] \o "': "
         \o PyRepr(d.d[d.keys[i]]) \o ReprPairs(d, i + 1)

\* str(v), which is also what an f-string field {v} formats
StrOf(v) == IF v.k = "str" THEN v.s ELSE PyRepr(v)

----------------------------------------------------------------------------
(* Defensive helpers *)

\* safe_list for a caller that takes anything list-like for a list
safe_list_ListLike(value) ==
    IF IsList(value) THEN value
    ELSE IF IsDict(value) THEN PyList([i \in 1..Len(value.keys) |-> PyStr(value.keys[i])])
    ELSE PyList(<<>>)

safe_list(value) == IF IsList(value) THEN value ELSE PyList(<<>>)

safe_dict(value) == IF IsDict(value) THEN value ELSE EmptyDict

\* safe_str that cuts without marking the cut
safe_str_NoEllipsis(value, max_len) ==
    LET s == IF value.k = "none" THEN "" ELSE StrOf(value)
    IN IF max_len.k # "none" /\ Len(s) > max_len.n
       THEN SubSeq(s, 1, max_len.n)
       ELSE s

\* max_len is None or an int that is not negative (s[:max_len] of a negative
\* max_len counts from the end of s; no call passes one)
safe_str(value, max_len) ==
    LET s == IF value.k = "none" THEN "" ELSE StrOf(value)
    IN IF max_len.k # "none" /\ Len(s) > max_len.n
       THEN SubSeq(s, 1, max_len.n) \o "..."
       ELSE s

----------------------------------------------------------------------------
(* display_toc_hierarchical *)

\* One row of the table; every column holds a Python value.  The Level
\* texts are the source's without their emoji, indentation kept.
Row(level, number, title, description, duration) ==
    [Level |-> PyStr(level), Number |-> PyStr(number), Title |-> title,
     Description |-> PyStr(description), Duration |-> duration]

\* CoerceNumber without the conversion of an int
CoerceNumber_Identity(num) == num

\* if isinstance(num, int): num = str(num)
CoerceNumber(num) == IF IsInt(num) THEN PyStr(StrOf(num)) ELSE num

ErrorRow(level, entry) ==
    Row(level, "", PyStr(safe_str(entry, PyNone)), "", EmptyStr)

MaintopicRow(maintopic) ==
    LET maintopic_num == CoerceNumber(Get(maintopic, "maintopic_number", EmptyStr))
        maintopic_title == Get(maintopic, "title", PyStr("Untitled"))
        maintopic_duration == Get(maintopic, "duration", PyStr("N/A"))
        maintopic_desc == safe_str(Get(maintopic, "description", EmptyStr), PyInt(80))
    IN Row("Maintopic",
           IF Truthy(maintopic_num) THEN "**" \o StrOf(maintopic_num) \o "**" ELSE "",
           PyStr("**" \o StrOf(maintopic_title) \o "**"),
           maintopic_desc,
           maintopic_duration)

SubtopicRow(maintopic_num, subtopic) ==
    LET subtopic_num == CoerceNumber(Get(subtopic, "subtopic_number", EmptyStr))
        subtopic_title == Get(subtopic, "title", PyStr("Untitled"))
        subtopic_desc == safe_str(Get(subtopic, "description", EmptyStr), PyInt(80))
        subtopic_duration == Get(subtopic, "duration_minutes", PyInt(0))
    IN Row("  Subtopic",
           IF Truthy(maintopic_num) \/ Truthy(subtopic_num)
           THEN StrOf(maintopic_num) \o "." \o StrOf(subtopic_num) ELSE "",
           subtopic_title,
           subtopic_desc,
           IF Truthy(subtopic_duration)
           THEN PyStr(StrOf(subtopic_duration) \o " min") ELSE PyStr("-"))

\* SubnodeRow titled with the raw string form of every sub-node
SubnodeRow_RawTitle(subnode) ==
    LET duration_minutes ==
            IF IsDict(subnode) THEN Get(subnode, "duration_minutes", PyInt(0))
            ELSE PyInt(0)
        duration_str ==
            IF IsDict(subnode) /\ Truthy(duration_minutes)
            THEN StrOf(duration_minutes) \o " min" ELSE ""
    IN Row("    Subnode", "", PyStr(safe_str(subnode, PyNone)), "", PyStr(duration_str))

\* SubnodeRow taking title, then name, whenever the key is there
SubnodeRow_TitleIfPresent(subnode) ==
    LET title ==
            IF IsDict(subnode)
            THEN (IF "title" \in DOMAIN subnode.d THEN subnode.d["title"]
                  ELSE IF "name" \in DOMAIN subnode.d THEN subnode.d["name"]
                  ELSE PyStr(StrOf(subnode)))
            ELSE PyStr(safe_str(subnode, PyNone))
        duration_minutes ==
            IF IsDict(subnode) THEN Get(subnode, "duration_minutes", PyInt(0))
            ELSE PyInt(0)
        duration_str ==
            IF IsDict(subnode) /\ Truthy(duration_minutes)
            THEN StrOf(duration_minutes) \o " min" ELSE ""
    IN Row("    Subnode", "", title, "", PyStr(duration_str))

SubnodeRow(subnode) ==
    LET title ==
            IF IsDict(subnode)
            THEN PyOr(PyOr(Get(subnode, "title", PyNone), Get(subnode, "name", PyNone)),
                      PyStr(StrOf(subnode)))
            ELSE PyStr(safe_str(subnode, PyNone))
        duration_minutes ==
            IF IsDict(subnode) THEN Get(subnode, "duration_minutes", PyInt(0))
            ELSE PyInt(0)
        duration_str ==
            IF IsDict(subnode) /\ Truthy(duration_minutes)
            THEN StrOf(duration_minutes) \o " min" ELSE ""
    IN Row("    Subnode", "", title, "", PyStr(duration_str))

RECURSIVE Flatten(_)
\* rows.append(...) over the iterations of a loop: the iterations' rows, in order
Flatten(seqs) ==
    IF seqs = <<>> THEN <<>> ELSE Head(seqs) \o Flatten(Tail(seqs))

\* SubnodeLoop giving a row to the dict sub-nodes only
SubnodeLoop_DictsOnly(subnodes) ==
    LET dicts == SelectSeq(subnodes, IsDict)
    IN [n \in 1..Len(dicts) |-> SubnodeRow(dicts[n])]

\* for subnode in subnodes: (lines 175-192)
SubnodeLoop(subnodes) ==
    [n \in 1..Len(subnodes) |-> SubnodeRow(subnodes[n])]

\* SubtopicRows with the sub-node rows appended before their subtopic's row
SubtopicRows_SubnodesFirst(maintopic_num, subtopic) ==
    IF ~IsDict(subtopic)
    THEN <<ErrorRow("  Error", subtopic)>>
    ELSE SubnodeLoop(safe_list(Get(subtopic, "subnodes", PyNone)).l)
         \o <<SubtopicRow(maintopic_num, subtopic)>>

\* the body of `for subtopic in subtopics:` (lines 147-192)
SubtopicRows(maintopic_num, subtopic) ==
    IF ~IsDict(subtopic)
    THEN <<ErrorRow("  Error", subtopic)>>
    ELSE <<SubtopicRow(maintopic_num, subtopic)>>
         \o SubnodeLoop(safe_list(Get(subtopic, "subnodes", PyNone)).l)

RECURSIVE UpToFirstNonDict(_)
\* the entries of a list up to and including the first that is no dict
UpToFirstNonDict(l) ==
    IF l = <<>> THEN <<>>
    ELSE IF ~IsDict(Head(l)) THEN <<Head(l)>>
         ELSE <<Head(l)>> \o UpToFirstNonDict(Tail(l))

\* SubtopicLoop leaving the loop (break) after the Error row of a malformed entry
SubtopicLoop_Break(maintopic_num, subtopics) ==
    LET seen == UpToFirstNonDict(subtopics)
    IN Flatten([j \in 1..Len(seen) |-> SubtopicRows(maintopic_num, seen[j])])

\* for subtopic in subtopics:
SubtopicLoop(maintopic_num, subtopics) ==
    Flatten([j \in 1..Len(subtopics) |-> SubtopicRows(maintopic_num, subtopics[j])])

\* the body of `for maintopic_entry in maintopics:` (lines 117-192)
MaintopicRows(maintopic_entry) ==
    IF ~IsDict(maintopic_entry)
    THEN <<ErrorRow("Error", maintopic_entry)>>
    ELSE LET maintopic == safe_dict(Get(maintopic_entry, "maintopic", PyNone))
             subtopics == safe_list(Get(maintopic_entry, "subtopics", PyNone))
             maintopic_num ==
                 CoerceNumber(Get(maintopic, "maintopic_number", EmptyStr))
         IN <<MaintopicRow(maintopic)>> \o SubtopicLoop(maintopic_num, subtopics.l)

\* rows = []; for maintopic_entry in maintopics: ...
BuildRows(maintopics) ==
    Flatten([i \in 1..Len(maintopics) |-> MaintopicRows(maintopics[i])])

----------------------------------------------------------------------------
(* Summary statistics of display_toc_hierarchical (lines 212-263) *)

RECURSIVE SumSeq(_)
SumSeq(ns) == IF ns = <<>> THEN 0 ELSE Head(ns) + SumSeq(Tail(ns))

\* the elements of a list that are dicts, in order
RECURSIVE OnlyDicts(_)
OnlyDicts(l) ==
    IF l = <<>> THEN <<>>
    ELSE (IF IsDict(Head(l)) THEN <<Head(l)>> ELSE <<>>) \o OnlyDicts(Tail(l))

\* sane_maintopics = [m for m in maintopics if isinstance(m, dict)]
sane_maintopics(maintopics) == OnlyDicts(maintopics)

\* the dict entries of m.get("subtopics")
SaneSubtopics(m) == OnlyDicts(safe_list(Get(m, "subtopics", PyNone)).l)

subtopic_count(maintopics) ==
    LET sane == sane_maintopics(maintopics)
    IN SumSeq([i \in 1..Len(sane) |-> Len(SaneSubtopics(sane[i]))])

SubnodeCountOf(sub) == Len(OnlyDicts(safe_list(Get(sub, "subnodes", PyNone)).l))

\* subnode_count counting every sub-node, whatever its type
subnode_count_All(maintopics) ==
    LET sane == sane_maintopics(maintopics)
    IN SumSeq([i \in 1..Len(sane) |->
           LET subs == SaneSubtopics(sane[i])
           IN SumSeq([j \in 1..Len(subs) |->
                  Len(safe_list(Get(subs[j], "subnodes", PyNone)).l)])])

subnode_count(maintopics) ==
    LET sane == sane_maintopics(maintopics)
    IN SumSeq([i \in 1..Len(sane) |->
           LET subs == SaneSubtopics(sane[i])
           IN SumSeq([j \in 1..Len(subs) |-> SubnodeCountOf(subs[j])])])

\* a number in tenths (a float is held in tenths; True is 1)
Tenths(v) ==
    CASE v.k = "int" -> 10 * v.n
      [] v.k = "bool" -> IF v.b THEN 10 ELSE 0
      [] v.k = "float" -> v.t

\* duration = sub.get("duration_minutes", 0) or 0, counted when it is a number
DurationTenths(sub) ==
    LET duration == PyOr(Get(sub, "duration_minutes", PyInt(0)), PyInt(0))
    IN IF IsNumber(duration) THEN Tenths(duration) ELSE 0

\* total_minutes, in tenths of a minute
total_minutes(maintopics) ==
    LET sane == sane_maintopics(maintopics)
    IN SumSeq([i \in 1..Len(sane) |->
           LET subs == SaneSubtopics(sane[i])
           IN SumSeq([j \in 1..Len(subs) |-> DurationTenths(subs[j])])])

\* `course_hours > 0` raises TypeError unless course_hours is a number
HoursComparisonRaises(course_hours) ==
    course_hours.k # "none" /\ ~IsNumber(course_hours)

\* HoursSupplied without the `course_hours > 0` test
HoursSupplied_NotNone(course_hours) ==
    course_hours.k # "none" /\ IsNumber(course_hours)

\* course_hours is not None and course_hours > 0
HoursSupplied(course_hours) ==
    course_hours.k # "none" /\ IsNumber(course_hours) /\ Tenths(course_hours) > 0

\* total_hours in 1/600 of an hour (a tenth of a minute)
total_hours(maintopics, course_hours) ==
    IF HoursSupplied(course_hours) THEN 60 * Tenths(course_hours)
    ELSE LET tm == total_minutes(maintopics) IN IF tm > 0 THEN tm ELSE 0

\* f"{total_hours:.1f}h" of a total held in 1/600 of an hour: the nearest
\* tenth of an hour.  A total halfway between two tenths (h600 % 60 = 30) is
\* rounded by the binary value of the float; no total of the model is one.
FormatHours(h600) ==
    LET tenths == (h600 + 30) \div 60
    IN NatToStr(tenths \div 10) \o "." \o Digits[(tenths % 10) + 1] \o "h"

\* the four metrics; TotalNA is the "N/A" of the Total Duration metric,
\* TotalText the text of that metric
Summary(maintopics, course_hours) ==
    [Maintopics |-> Len(sane_maintopics(maintopics)),
     Subtopics |-> subtopic_count(maintopics),
     Subnodes |-> subnode_count(maintopics),
     TotalNA |-> ~(total_hours(maintopics, course_hours) > 0),
     Total600 |-> total_hours(maintopics, course_hours),
     TotalText |-> IF total_hours(maintopics, course_hours) > 0
                   THEN FormatHours(total_hours(maintopics, course_hours))
                   ELSE "N/A"]

\* What one call shows: noData is the warning with the raw document, rows the
\* table, summary the metrics (<<>> when none are shown), raised an exception
\* leaving the function.
Shown(raised, noData, rows, summary, records) ==
    [raised |-> raised, noData |-> noData, rows |-> rows, summary |-> summary,
     records |-> records]

\* display_toc_hierarchical without the `if not maintopics:` branch
display_NoEmptyCheck(toc_data, course_hours) ==
    LET maintopics ==
            safe_list(Get(safe_dict(toc_data), "maintopics_with_subtopics", PyNone)).l
    IN IF HoursComparisonRaises(course_hours)
       THEN Shown(TRUE, FALSE, BuildRows(maintopics), <<>>, <<>>)
       ELSE Shown(FALSE, FALSE, BuildRows(maintopics),
                  <<Summary(maintopics, course_hours)>>, <<>>)

\* display_toc_hierarchical without the `return` of the `if not maintopics:` branch
display_NoEarlyReturn(toc_data, course_hours) ==
    LET maintopics ==
            safe_list(Get(safe_dict(toc_data), "maintopics_with_subtopics", PyNone)).l
    IN IF HoursComparisonRaises(course_hours)
       THEN Shown(TRUE, maintopics = <<>>, BuildRows(maintopics), <<>>, <<>>)
       ELSE Shown(FALSE, maintopics = <<>>, BuildRows(maintopics),
                  <<Summary(maintopics, course_hours)>>, <<>>)

display_toc_hierarchical(toc_data, course_hours) ==
    LET maintopics ==
            safe_list(Get(safe_dict(toc_data), "maintopics_with_subtopics", PyNone)).l
    IN IF maintopics = <<>>
       THEN Shown(FALSE, TRUE, <<>>, <<>>, <<>>)
       ELSE IF HoursComparisonRaises(course_hours)
            THEN Shown(TRUE, FALSE, BuildRows(maintopics), <<>>, <<>>)
            ELSE Shown(FALSE, FALSE, BuildRows(maintopics),
                       <<Summary(maintopics, course_hours)>>, <<>>)

----------------------------------------------------------------------------
(* extract_subtopics_from_toc *)

\* the minimal entry of a subtopic that is no dict (lines 285-299)
MinimalSubtopicRecord(maintopic_num, maintopic_title, subtopic) ==
    LET title == safe_str(subtopic, PyNone)
    IN [maintopic_number |-> maintopic_num,
        maintopic_title |-> maintopic_title,
        subtopic_number |-> EmptyStr,
        subtopic_title |-> PyStr(title),
        full_number |-> PyStr(StrOf(maintopic_num) \o "."),
        display_name |-> PyStr(StrOf(maintopic_num) \o ". - " \o title),
        description |-> EmptyStr,
        duration |-> PyInt(0),
        subnodes |-> PyList(<<>>)]

\* the entry of a dict subtopic (lines 301-320)
SubtopicRecord(maintopic_num, maintopic_title, subtopic) ==
    LET subtopic_num == CoerceNumber(Get(subtopic, "subtopic_number", EmptyStr))
        subtopic_title == Get(subtopic, "title", EmptyStr)
        subtopic_desc == PyOr(Get(subtopic, "description", EmptyStr), EmptyStr)
        subtopic_duration == Get(subtopic, "duration_minutes", PyInt(0))
        subnodes == safe_list(Get(subtopic, "subnodes", PyNone))
    IN [maintopic_number |-> maintopic_num,
        maintopic_title |-> maintopic_title,
        subtopic_number |-> subtopic_num,
        subtopic_title |-> subtopic_title,
        full_number |->
            IF Truthy(maintopic_num) \/ Truthy(subtopic_num)
            THEN PyStr(StrOf(maintopic_num) \o "." \o StrOf(subtopic_num))
            ELSE EmptyStr,
        display_name |->
            IF Truthy(subtopic_num)
            THEN PyStr(StrOf(maintopic_num) \o "." \o StrOf(subtopic_num) \o " - "
                       \o StrOf(subtopic_title))
            ELSE PyStr(StrOf(maintopic_num) \o ". - " \o StrOf(subtopic_title)),
        description |-> subtopic_desc,
        duration |-> subtopic_duration,
        subnodes |-> subnodes]

\* the body of `for subtopic in subtopics:` (lines 284-320)
SubtopicEntry(maintopic_num, maintopic_title, subtopic) ==
    IF ~IsDict(subtopic)
    THEN MinimalSubtopicRecord(maintopic_num, maintopic_title, subtopic)
    ELSE SubtopicRecord(maintopic_num, maintopic_title, subtopic)

\* the body of `for maintopic_entry in maintopics:` (lines 273-320)
SubtopicsOfEntry(maintopic_entry) ==
    IF ~IsDict(maintopic_entry) THEN <<>>
    ELSE LET maintopic == safe_dict(Get(maintopic_entry, "maintopic", PyNone))
             subtopics == safe_list(Get(maintopic_entry, "subtopics", PyNone)).l
             maintopic_num ==
                 CoerceNumber(Get(maintopic, "maintopic_number", EmptyStr))
             maintopic_title == Get(maintopic, "title", EmptyStr)
         IN [j \in 1..Len(subtopics) |->
                SubtopicEntry(maintopic_num, maintopic_title, subtopics[j])]

extract_subtopics_from_toc(toc_data) ==
    LET maintopics ==
            safe_list(Get(safe_dict(toc_data), "maintopics_with_subtopics", PyNone)).l
    IN Flatten([i \in 1..Len(maintopics) |-> SubtopicsOfEntry(maintopics[i])])

----------------------------------------------------------------------------
(* extract_subnodes_from_toc *)

\* the entry of one sub-node (lines 356-379)
SubnodeRecord(maintopic_num, maintopic_title, subtopic_num, subtopic_title, subnode_idx, subnode) ==
    LET subnode_title ==
            IF IsDict(subnode)
            THEN PyOr(PyOr(Get(subnode, "title", EmptyStr), Get(subnode, "name", EmptyStr)),
                      PyStr(StrOf(subnode)))
            ELSE PyStr(safe_str(subnode, PyNone))
        subnode_duration ==
            IF IsDict(subnode) THEN Get(subnode, "duration_minutes", PyInt(0))
            ELSE PyInt(0)
        full_number ==
            IF Truthy(maintopic_num) /\ Truthy(subtopic_num)
            THEN StrOf(maintopic_num) \o "." \o StrOf(subtopic_num) \o "."
                 \o IntToStr(subnode_idx)
            ELSE ""
    IN [maintopic_number |-> maintopic_num,
        maintopic_title |-> maintopic_title,
        subtopic_number |-> subtopic_num,
        subtopic_title |-> subtopic_title,
        subnode_index |-> PyInt(subnode_idx),
        subnode_title |-> subnode_title,
        full_number |-> PyStr(full_number),
        display_name |->
            IF full_number # ""
            THEN PyStr(full_number \o " - " \o StrOf(subnode_title))
            ELSE subnode_title,
        description |-> EmptyStr,
        duration |-> subnode_duration,
        level |-> PyStr("subnode")]

\* SubnodesOfSubtopic numbering the sub-nodes from 0: enumerate(subnodes)
SubnodesOfSubtopic_ZeroBased(maintopic_num, maintopic_title, subtopic) ==
    IF ~IsDict(subtopic) THEN <<>>
    ELSE LET subtopic_num == CoerceNumber(Get(subtopic, "subtopic_number", EmptyStr))
             subtopic_title == Get(subtopic, "title", EmptyStr)
             subnodes == safe_list(Get(subtopic, "subnodes", PyNone)).l
         IN [n \in 1..Len(subnodes) |->
                SubnodeRecord(maintopic_num, maintopic_title, subtopic_num,
                              subtopic_title, n - 1, subnodes[n])]

\* the body of `for subtopic in subtopics:` (lines 344-379)
SubnodesOfSubtopic(maintopic_num, maintopic_title, subtopic) ==
    IF ~IsDict(subtopic) THEN <<>>
    ELSE LET subtopic_num == CoerceNumber(Get(subtopic, "subtopic_number", EmptyStr))
             subtopic_title == Get(subtopic, "title", EmptyStr)
             subnodes == safe_list(Get(subtopic, "subnodes", PyNone)).l
         IN [n \in 1..Len(subnodes) |->
                SubnodeRecord(maintopic_num, maintopic_title, subtopic_num,
                              subtopic_title, n, subnodes[n])]

\* the body of `for maintopic_entry in maintopics:` (lines 333-379)
SubnodesOfEntry(maintopic_entry) ==
    IF ~IsDict(maintopic_entry) THEN <<>>
    ELSE LET maintopic == safe_dict(Get(maintopic_entry, "maintopic", PyNone))
             subtopics == safe_list(Get(maintopic_entry, "subtopics", PyNone)).l
             maintopic_num ==
                 CoerceNumber(Get(maintopic, "maintopic_number", EmptyStr))
             maintopic_title == Get(maintopic, "title", EmptyStr)
         IN Flatten([j \in 1..Len(subtopics) |->
                SubnodesOfSubtopic(maintopic_num, maintopic_title, subtopics[j])])

extract_subnodes_from_toc(toc_data) ==
    LET maintopics ==
            safe_list(Get(safe_dict(toc_data), "maintopics_with_subtopics", PyNone)).l
    IN Flatten([i \in 1..Len(maintopics) |-> SubnodesOfEntry(maintopics[i])])

----------------------------------------------------------------------------
(* The course documents the functions are applied to *)

\* the most entities (main topics, subtopics and sub-nodes together) of a
\* document of the shape family
MaxEntities == 5

\* a key a document leaves out
Absent == [k |-> "absent"]

\* the dict of the pairs <<key, value>> in this order, without the keys left out
MkDict(pairs) ==
    LET present == SelectSeq(pairs, LAMBDA p : p[2] # Absent)
        at(key) == CHOOSE i \in 1..Len(present) : present[i][1] = key
    IN PyDict([i \in 1..Len(present) |-> present[i][1]],
              [key \in {present[i][1] : i \in 1..Len(present)} |-> present[at(key)][2]])

Toc(maintopics) == MkDict(<<<<"maintopics_with_subtopics", maintopics>>>>)

Entry(maintopic, subtopics) ==
    MkDict(<<<<"maintopic", maintopic>>, <<"subtopics", subtopics>>>>)

Maintopic(number, title) ==
    MkDict(<<<<"maintopic_number", number>>, <<"title", title>>>>)

Subtopic(number, title, duration, subnodes) ==
    MkDict(<<<<"subtopic_number", number>>, <<"title", title>>,
             <<"duration_minutes", duration>>, <<"subnodes", subnodes>>>>)

Subnode(title, name, duration) ==
    MkDict(<<<<"title", title>>, <<"name", name>>, <<"duration_minutes", duration>>>>)

(* Shape family: every tree of at most MaxEntities entities, where a
   main-topic entry or a subtopic is a mapping or the string "oops", and a
   sub-node is a bare string, a mapping with a title or a mapping with a name.
   Numbers are the 1-based positions (integers), titles name the position. *)

NodeKinds == {"str", "title", "name"}

BadShape == [bad |-> TRUE, kids |-> <<>>]
GoodShape(kids) == [bad |-> FALSE, kids |-> kids]

\* the shapes of one subtopic with c entities
SubShapes(c) ==
    (IF c = 1 THEN {BadShape} ELSE {})
    \cup {GoodShape(kids) : kids \in [1..(c - 1) -> NodeKinds]}

RECURSIVE SubLists(_)
\* the subtopic lists with b entities in all
SubLists(b) ==
    IF b = 0 THEN {<<>>}
    ELSE UNION {{<<x>> \o r : x \in SubShapes(c), r \in SubLists(b - c)} : c \in 1..b}

MainShapes(c) ==
    (IF c = 1 THEN {BadShape} ELSE {})
    \cup {GoodShape(kids) : kids \in SubLists(c - 1)}

RECURSIVE MainLists(_)
MainLists(b) ==
    IF b = 0 THEN {<<>>}
    ELSE UNION {{<<x>> \o r : x \in MainShapes(c), r \in MainLists(b - c)} : c \in 1..b}

Shapes == UNION {MainLists(b) : b \in 0..MaxEntities}

Oops == PyStr("oops")

ShapeSubnode(kind, i, j, n) ==
    LET at == IntToStr(i) \o "." \o IntToStr(j) \o "." \o IntToStr(n)
    IN CASE kind = "str" -> PyStr("A" \o at)
         [] kind = "title" -> Subnode(PyStr("B" \o at), Absent, PyInt(5))
         [] kind = "name" -> Subnode(Absent, PyStr("N" \o at), Absent)

ShapeSubtopic(sub, i, j) ==
    IF sub.bad THEN Oops
    ELSE Subtopic(PyInt(j), PyStr("S" \o IntToStr(i) \o "." \o IntToStr(j)), PyInt(30),
                  PyList([n \in 1..Len(sub.kids) |-> ShapeSubnode(sub.kids[n], i, j, n)]))

ShapeEntry(main, i) ==
    IF main.bad THEN Oops
    ELSE Entry(Maintopic(PyInt(i), PyStr("M" \o IntToStr(i))),
               PyList([j \in 1..Len(main.kids) |-> ShapeSubtopic(main.kids[j], i, j)]))

ShapeDoc(shape) == Toc(PyList([i \in 1..Len(shape) |-> ShapeEntry(shape[i], i)]))

ShapeDocs == {ShapeDoc(shape) : shape \in Shapes}

(* Field families: one main topic with one subtopic, fields drawn from the
   values a response may carry there: absent, null, or of any kind. *)

NumberVals ==
    {Absent, PyNone, PyStr(""), PyStr("3"), PyInt(3), PyStr("0"), PyInt(0), PyFloat(25)}

TitleVals == {Absent, PyNone, PyStr("Basics")}

DurationVals == {Absent, PyInt(30), PyInt(0), PyInt(-5), PyStr("x"), PyFloat(15)}

ScenarioSubnodes == PyList(<<PyStr("A"), Subnode(PyStr("B"), Absent, PyInt(5))>>)

\* sub-nodes whose title is empty or None beside a name, and with a
\* duration_minutes of 0 or of no number
FallbackSubnodes ==
    PyList(<<Subnode(PyStr(""), PyStr("N"), PyInt(0)),
             Subnode(PyNone, PyStr("M"), PyStr("x")),
             Subnode(PyStr("T"), PyStr("N"), PyFloat(25)),
             Subnode(PyStr(""), Absent, Absent)>>)

SubnodesVals == {Absent, ScenarioSubnodes, FallbackSubnodes, PyList(<<PyNone, EmptyDict>>)}

FieldDoc(mn, sn, st, du, sv) ==
    Toc(PyList(<<Entry(Maintopic(mn, PyStr("Intro")),
                       PyList(<<Subtopic(sn, st, du, sv)>>))>>))

\* the numbers and the title vary
NumberDocs ==
    {FieldDoc(mn, sn, st, PyInt(30), ScenarioSubnodes) :
        mn \in NumberVals, sn \in NumberVals, st \in TitleVals}

\* the title, the duration and the sub-nodes vary
DetailDocs ==
    {FieldDoc(PyInt(1), PyInt(1), st, du, sv) :
        st \in TitleVals, du \in DurationVals, sv \in SubnodesVals}

\* main topic 1 "Intro", subtopic 1 "Basics" of 30 minutes, sub-nodes "A"
\* and {title: "B", duration_minutes: 5}
ScenarioDoc ==
    FieldDoc(PyInt(1), PyInt(1), PyStr("Basics"), PyInt(30), ScenarioSubnodes)

EmptyListDoc == Toc(PyList(<<>>))

(* Malformed family: a value of the wrong kind at each level above the fields. *)

WrongKinds == {PyNone, PyStr("x"), PyInt(7), PyList(<<>>), EmptyDict, PyList(<<Oops>>)}

MalformedDocs ==
    (WrongKinds \ {EmptyDict})
    \cup {Toc(v) : v \in (WrongKinds \cup {Absent, PyList(<<PyNone, PyInt(7)>>)})}
    \cup {Toc(PyList(<<Entry(m, s)>>)) : m \in WrongKinds \cup {Absent},
                                         s \in WrongKinds \cup {Absent}}
    \cup {Toc(PyList(<<Entry(Maintopic(PyInt(1), PyStr("Intro")), PyList(<<v>>))>>)) :
              v \in WrongKinds}
    \cup {FieldDoc(PyInt(1), PyInt(1), PyStr("Basics"), PyInt(30), v) : v \in WrongKinds}
    \cup {FieldDoc(PyInt(1), PyInt(1), PyStr("Basics"), PyInt(30), PyList(<<v>>)) :
              v \in WrongKinds}

Docs == ShapeDocs \cup NumberDocs \cup DetailDocs \cup MalformedDocs

\* the course_hours a caller passes: course_metadata.get("course_hours")
HoursVals ==
    {PyNone, PyInt(10), PyInt(0), PyInt(-1), PyFloat(25), PyStr("10"), EmptyDict}

----------------------------------------------------------------------------
(* The calls *)

NoOutput == Shown(FALSE, FALSE, <<>>, <<>>, <<>>)

\* what asyncio.run(call_...(payload)) did: returned {"status_code", "data"}
\* or raised
\* (result is the dict it returned, None when it raised or was never called)
NoCall == [raised |-> "", result |-> PyNone]
Returned(status_code, data) ==
    [raised |-> "",
     result |-> MkDict(<<<<"status_code", PyInt(status_code)>>, <<"data", data>>>>)]
Raised(exception) == [raised |-> exception, result |-> PyNone]

\* no Generate Scripts run in flight
NoBatch ==
    [project_state |-> "", project_region |-> PyNone,
     selected_subtopic_names |-> {}, selected_subnode_names |-> {},
     payload |-> PyNone]

\* the session state after its initialisation, nothing clicked yet
SessionStart ==
    /\ toc_response = PyNone
    /\ script_response = PyNone
    /\ toc_request_in_progress = FALSE
    /\ script_request_in_progress = FALSE
    /\ pc = "idle"
    /\ last_call = NoCall
    /\ batch = NoBatch

Init ==
    /\ doc \in Docs
    /\ hours = PyNone
    /\ op = "none"
    /\ out = NoOutput
    /\ arg_value = PyNone
    /\ arg_max_len = PyNone
    /\ result = PyNone
    /\ SessionStart

\* display_toc_hierarchical(toc_data, course_hours=course_hours)
CallDisplay ==
    /\ \E h \in HoursVals :
          /\ hours' = h
          /\ out' = display_toc_hierarchical(doc, h)
    /\ op' = "display"
    /\ UNCHANGED <<doc, helperVars, sessionVars>>

\* an extractor that empties the main-topic list it was given while reading it
CallExtractSubtopics_Consuming ==
    /\ out' = Shown(FALSE, FALSE, <<>>, <<>>, extract_subtopics_from_toc(doc))
    /\ op' = "subtopics"
    /\ hours' = PyNone
    /\ doc' = EmptyListDoc
    /\ UNCHANGED <<helperVars, sessionVars>>

\* extract_subtopics_from_toc(toc_data)
CallExtractSubtopics ==
    /\ out' = Shown(FALSE, FALSE, <<>>, <<>>, extract_subtopics_from_toc(doc))
    /\ op' = "subtopics"
    /\ hours' = PyNone
    /\ UNCHANGED <<doc, helperVars, sessionVars>>

\* extract_subnodes_from_toc(toc_data)
CallExtractSubnodes ==
    /\ out' = Shown(FALSE, FALSE, <<>>, <<>>, extract_subnodes_from_toc(doc))
    /\ op' = "subnodes"
    /\ hours' = PyNone
    /\ UNCHANGED <<doc, helperVars, sessionVars>>

Next == CallDisplay \/ CallExtractSubtopics \/ CallExtractSubnodes

Spec == Init /\ [][Next]_vars

----------------------------------------------------------------------------
(* The defensive helpers called on their own *)

MaxLen == 4

\* the values handed to the helpers: None, strings shorter than, as long as
\* and longer than the max_len values, numbers, lists and dicts
HelperVals ==
    {PyNone, PyBool(TRUE), PyInt(0), PyInt(12345), PyInt(-7), PyFloat(25),
     PyStr(""), PyStr("a"), PyStr("abc"), PyStr("abcd"), PyStr("abcde"),
     PyStr("abcdef"), PyStr("Intro to TLA"),
     PyList(<<>>), PyList(<<PyInt(1), PyStr("a")>>),
     EmptyDict, MkDict(<<<<"title", PyStr("T")>>>>)}

\* max_len: not given, or 0..MaxLen
MaxLens == {PyNone} \cup {PyInt(n) : n \in 0..MaxLen}

HelperInit ==
    /\ doc = PyNone
    /\ hours = PyNone
    /\ op = "none"
    /\ out = NoOutput
    /\ arg_value = PyNone
    /\ arg_max_len = PyNone
    /\ result = PyNone
    /\ SessionStart

\* safe_str(value, max_len)
CallSafeStr ==
    /\ \E v \in HelperVals : \E m \in MaxLens :
          /\ arg_value' = v
          /\ arg_max_len' = m
          /\ result' = PyStr(safe_str(v, m))
    /\ op' = "safe_str"
    /\ UNCHANGED <<doc, hours, out, sessionVars>>

\* safe_list(value)
CallSafeList ==
    /\ \E v \in HelperVals :
          /\ arg_value' = v
          /\ result' = safe_list(v)
    /\ arg_max_len' = PyNone
    /\ op' = "safe_list"
    /\ UNCHANGED <<doc, hours, out, sessionVars>>

\* safe_dict(value)
CallSafeDict ==
    /\ \E v \in HelperVals :
          /\ arg_value' = v
          /\ result' = safe_dict(v)
    /\ arg_max_len' = PyNone
    /\ op' = "safe_dict"
    /\ UNCHANGED <<doc, hours, out, sessionVars>>

HelperNext == CallSafeStr \/ CallSafeList \/ CallSafeDict

HelperSpec == HelperInit /\ [][HelperNext]_vars

----------------------------------------------------------------------------
(* The session: the Generate TOC and Generate Scripts handlers and the Clear
   buttons, over st.session_state.  A script run that awaits a service is
   split at asyncio.run(...); every other run is one step. *)

\* the TOC documents the TOC service answers with: the scenario, the scenario
\* with the subtopic's title null, and a course without main topics
NullTitleDoc == FieldDoc(PyInt(1), PyInt(1), PyNone, PyInt(30), ScenarioSubnodes)

\* a TOC with two subtopics of the same number and title, each with the
\* sub-node "A": two subtopic records and two sub-node records of one
\* display_name each
DuplicateDoc ==
    Toc(PyList(<<Entry(Maintopic(PyInt(1), PyStr("Intro")),
                       PyList(<<Subtopic(PyInt(1), PyStr("Py Basics"), PyInt(30),
                                         PyList(<<PyStr("A")>>)),
                                Subtopic(PyInt(1), PyStr("Py Basics"), PyInt(30),
                                         PyList(<<PyStr("A")>>))>>))>>))

SessionDocs == {ScenarioDoc, NullTitleDoc, DuplicateDoc, EmptyListDoc}

\* response.json() of the TOC service: a dict with or without "success", its
\* "toc" a document or null; or no dict at all
TocDatas ==
    {MkDict(<<<<"success", su>>, <<"toc", toc>>>>) :
        su \in {Absent, PyBool(TRUE), PyBool(FALSE)}, toc \in SessionDocs \cup {PyNone}}
    \cup {PyList(<<>>)}

StatusCodes == {200, 500}

\* asyncio.run(call_toc_create_sync(payload)): a result, an httpx.RequestError
\* (no connection, timeout) or another exception (a body that is no JSON)
TocCalls ==
    {Returned(sc, d) : sc \in StatusCodes, d \in TocDatas}
    \cup {Raised("RequestError"), Raised("Exception")}

\* the TOC handler storing the data of every answer with status 200
TocHandler_StoreAny200(call, response) ==
    IF call.raised = "" /\ call.result.d["status_code"] = PyInt(200)
    THEN call.result.d["data"] ELSE response

\* the body of the try of the Generate TOC handler: the toc_response it leaves
TocHandler(call, response) ==
    IF call.raised # "" THEN response
    ELSE IF call.result.d["status_code"] = PyInt(200)
    THEN LET data == call.result.d["data"]
         IN IF ~IsDict(data) THEN response
            ELSE IF Truthy(Get(data, "success", PyBool(TRUE))) THEN data
            ELSE response
    ELSE response

\* a click on Generate TOC, up to asyncio.run(...)
ClickGenerateTOC ==
    /\ pc = "idle"
    /\ ~toc_request_in_progress
    /\ toc_request_in_progress' = TRUE
    /\ pc' = "toc_sent"
    /\ UNCHANGED <<toc_response, script_response, script_request_in_progress,
                   last_call, batch>>
    /\ UNCHANGED <<tocVars, helperVars>>

\* asyncio.run(...) returns or raises; the rest of the try, the except clauses
\* and the finally, which runs however the try is left: at its end, through an
\* except clause, or through the exception by which st.rerun() ends the run
TocCallEnds ==
    /\ pc = "toc_sent"
    /\ \E call \in TocCalls :
          /\ last_call' = call
          /\ toc_response' = TocHandler(call, toc_response)
    /\ toc_request_in_progress' = FALSE
    /\ pc' = "idle"
    /\ UNCHANGED <<script_response, script_request_in_progress, batch>>
    /\ UNCHANGED <<tocVars, helperVars>>

\* the display names of a list of records
DisplayNames(records) == {records[i].display_name : i \in 1..Len(records)}

\* the records the multiselect's chosen names select
Selected(records, names) == SelectSeq(records, LAMBDA r : r.display_name \in names)

\* building the batch payload raises: sub['subtopic_title'][:20].replace(...)
\* and subnode['subnode_title'][:20].replace(...) need a str
PayloadRaises(selected_subtopics, selected_subnodes) ==
    \/ \E i \in 1..Len(selected_subtopics) : selected_subtopics[i].subtopic_title.k # "str"
    \/ \E i \in 1..Len(selected_subnodes) : selected_subnodes[i].subnode_title.k # "str"

\* response.json() of the script service
ScriptDatas ==
    {MkDict(<<<<"scripts", PyList(<<>>)>>, <<"successful", PyInt(0)>>, <<"failed", PyInt(1)>>>>),
     MkDict(<<<<"scripts", PyList(<<MkDict(<<<<"sub_topic", PyStr("Basics")>>,
                                              <<"script_type", PyStr("Informative")>>,
                                              <<"script", PyStr("text")>>>>)>>)>>,
              <<"successful", PyInt(1)>>, <<"failed", PyInt(0)>>>>),
     MkDict(<<<<"scripts", PyList(<<EmptyDict>>)>>>>),
     MkDict(<<<<"failed", PyStr("1")>>>>),
     PyList(<<>>)}

ScriptCalls ==
    {Returned(sc, d) : sc \in StatusCodes, d \in ScriptDatas} \cup {Raised("Exception")}

\* the status-200 branch raises before it stores the result: data is no dict,
\* "scripts" has no len() or holds an entry without its keys, or "failed" does
\* not compare with 0
ScriptBranchRaises(data) ==
    \/ ~IsDict(data)
    \/ LET scripts == Get(data, "scripts", PyList(<<>>))
       IN \/ ("total_scripts" \notin DOMAIN data.d /\ scripts.k \notin {"list", "dict", "str"})
          \/ /\ Truthy(scripts)
             /\ ~(/\ IsList(scripts)
                  /\ \A i \in 1..Len(scripts.l) :
                        /\ IsDict(scripts.l[i])
                        /\ {"sub_topic", "script_type", "script"} \subseteq DOMAIN scripts.l[i].d)
    \/ ~IsNumber(Get(data, "failed", PyInt(0)))

\* the body of the try of the Generate Scripts handler: the script_response
\* it leaves
ScriptHandler(call, response) ==
    IF call.raised # "" THEN response
    ELSE IF call.result.d["status_code"] = PyInt(200)
    THEN (IF ScriptBranchRaises(call.result.d["data"]) THEN response ELSE call.result)
    ELSE response

\* the State and Region (Optional) selectboxes
ProjectStates == {"Pan India", "Maharashtra"}
ProjectRegions == {PyNone, PyStr("North")}

\* f"{script_counter:03d}"
Pad3(n) ==
    IF n < 10 THEN "00" \o NatToStr(n)
    ELSE IF n < 100 THEN "0" \o NatToStr(n)
    ELSE NatToStr(n)

RECURSIVE ReplaceSpaces(_)
\* s.replace(' ', '_')
ReplaceSpaces(s) ==
    IF s = "" THEN ""
    ELSE (IF SubSeq(s, 1, 1) = " " THEN "_" ELSE SubSeq(s, 1, 1))
         \o ReplaceSpaces(SubSeq(s, 2, Len(s)))

\* s[:20]
First20(s) == IF Len(s) > 20 THEN SubSeq(s, 1, 20) ELSE s

\* one entry of batch_scripts, for a record whose title is a str; the
\* learner's path and the script type are the selectboxes' first options
ScriptEntry(record, title, level, script_counter) ==
    MkDict(<<<<"sub_topic", title>>,
             <<"learners_path", PyStr("Professional")>>,
             <<"description",
               PyOr(record.description, PyStr("Educational content for " \o StrOf(title)))>>,
             <<"duration", record.duration>>,
             <<"script_type", PyStr("Solo Narration")>>,
             <<"maintopic", record.maintopic_title>>,
             <<"level", PyStr(level)>>,
             <<"number", record.full_number>>,
             <<"script_id",
               PyStr("script_" \o Pad3(script_counter) \o "_"
                     \o ReplaceSpaces(First20(title.s)))>>>>)

\* batch_scripts: the subtopics, then the sub-nodes, script_counter from 1
BatchScripts(selected_subtopics, selected_subnodes) ==
    [i \in 1..Len(selected_subtopics) |->
        ScriptEntry(selected_subtopics[i], selected_subtopics[i].subtopic_title,
                    "subtopic", i)]
    \o [i \in 1..Len(selected_subnodes) |->
        ScriptEntry(selected_subnodes[i], selected_subnodes[i].subnode_title,
                    "subnode", Len(selected_subtopics) + i)]

\* region_value with the test of the state left out
RegionValue_AnyState(project_state, project_region) == project_region

\* region_value: None when the state is "Pan India"
RegionValue(project_state, project_region) ==
    IF project_state = "Pan India" THEN PyNone ELSE project_region

\* toc_project_id: the project_id of the TOC response, else the Project ID
\* field, whose value is its default "proj_001"
ProjectId(response) ==
    LET toc_response_project_id == Get(response, "project_id", PyNone)
    IN IF Truthy(toc_response_project_id) /\ StrOf(toc_response_project_id) # ""
       THEN PyStr(StrOf(toc_response_project_id))
       ELSE PyStr("proj_001")

\* the batch payload; "region" only when region_value is not None
BatchPayload(response, project_state, project_region, selected_subtopics, selected_subnodes) ==
    MkDict(<<<<"project_id", ProjectId(response)>>,
             <<"state", PyStr(project_state)>>,
             <<"scripts", PyList(BatchScripts(selected_subtopics, selected_subnodes))>>,
             <<"region",
               IF RegionValue(project_state, project_region) # PyNone
               THEN RegionValue(project_state, project_region) ELSE Absent>>>>)

\* a click on Generate Scripts with some subtopics or sub-nodes selected: the
\* flag is set, the payload is built and, unless that raises, the request sent
ClickGenerateScripts ==
    /\ pc = "idle"
    /\ Truthy(toc_response)
    /\ ~script_request_in_progress
    /\ LET toc_data == Get(toc_response, "toc", EmptyDict)
           available_subtopics == extract_subtopics_from_toc(toc_data)
           available_subnodes == extract_subnodes_from_toc(toc_data)
       IN \E subtopic_names \in SUBSET DisplayNames(available_subtopics) :
          \E subnode_names \in SUBSET DisplayNames(available_subnodes) :
          \E state \in ProjectStates : \E region \in ProjectRegions :
             LET selected_subtopics == Selected(available_subtopics, subtopic_names)
                 selected_subnodes == Selected(available_subnodes, subnode_names)
             IN /\ selected_subtopics # <<>> \/ selected_subnodes # <<>>
                /\ IF PayloadRaises(selected_subtopics, selected_subnodes)
                   THEN /\ pc' = "idle"
                        /\ batch' = NoBatch
                   ELSE /\ pc' = "script_sent"
                        /\ batch' = [project_state |-> state,
                                     project_region |-> region,
                                     selected_subtopic_names |-> subtopic_names,
                                     selected_subnode_names |-> subnode_names,
                                     payload |-> BatchPayload(toc_response, state, region,
                                                    selected_subtopics, selected_subnodes)]
    /\ script_request_in_progress' = TRUE
    /\ UNCHANGED <<toc_response, script_response, toc_request_in_progress, last_call>>
    /\ UNCHANGED <<tocVars, helperVars>>

ScriptCallEnds ==
    /\ pc = "script_sent"
    /\ \E call \in ScriptCalls :
          /\ last_call' = call
          /\ script_response' = ScriptHandler(call, script_response)
    /\ script_request_in_progress' = FALSE
    /\ pc' = "idle"
    /\ batch' = NoBatch
    /\ UNCHANGED <<toc_response, toc_request_in_progress>>
    /\ UNCHANGED <<tocVars, helperVars>>

\* the sidebar raises before it comes to the Clear buttons: the stored "toc"
\* is no dict, or a main-topic entry is no dict or has subtopics without len()
SidebarRaises ==
    /\ Truthy(toc_response)
    /\ LET toc_data == Get(toc_response, "toc", EmptyDict)
       IN \/ ~IsDict(toc_data)
          \/ LET maintopics == Get(toc_data, "maintopics_with_subtopics", PyList(<<>>))
             IN \/ ~IsList(maintopics)
                \/ \E i \in 1..Len(maintopics.l) :
                      \/ ~IsDict(maintopics.l[i])
                      \/ Get(maintopics.l[i], "subtopics", PyList(<<>>)).k
                             \notin {"list", "dict", "str"}

\* Clear TOC Response
ClearTOC ==
    /\ pc = "idle"
    /\ ~SidebarRaises
    /\ toc_response' = PyNone
    /\ UNCHANGED <<script_response, toc_request_in_progress,
                   script_request_in_progress, pc, last_call, batch>>
    /\ UNCHANGED <<tocVars, helperVars>>

\* Clear Script Response
ClearScript ==
    /\ pc = "idle"
    /\ ~SidebarRaises
    /\ script_response' = PyNone
    /\ UNCHANGED <<toc_response, toc_request_in_progress,
                   script_request_in_progress, pc, last_call, batch>>
    /\ UNCHANGED <<tocVars, helperVars>>

SessionInit ==
    /\ doc = EmptyListDoc
    /\ hours = PyNone
    /\ op = "none"
    /\ out = NoOutput
    /\ arg_value = PyNone
    /\ arg_max_len = PyNone
    /\ result = PyNone
    /\ SessionStart

SessionNext ==
    \/ ClickGenerateTOC
    \/ TocCallEnds
    \/ ClickGenerateScripts
    \/ ScriptCallEnds
    \/ ClearTOC
    \/ ClearScript

SessionSpec == SessionInit /\ [][SessionNext]_vars

----------------------------------------------------------------------------
(* The document as the claims read it *)

\* the top-level list of main-topic entries, <<>> when there is none
TopEntries(d) ==
    IF IsDict(d) /\ "maintopics_with_subtopics" \in DOMAIN d.d
       /\ IsList(d.d["maintopics_with_subtopics"])
    THEN d.d["maintopics_with_subtopics"].l ELSE <<>>

\* the list under key of a mapping, <<>> when there is none
ListAt(v, key) ==
    IF IsDict(v) /\ key \in DOMAIN v.d /\ IsList(v.d[key]) THEN v.d[key].l ELSE <<>>

\* the mapping under key of a mapping, the empty mapping when there is none
DictAt(v, key) ==
    IF IsDict(v) /\ key \in DOMAIN v.d /\ IsDict(v.d[key]) THEN v.d[key] ELSE EmptyDict

\* the rows one subtopic entry accounts for: itself and its sub-nodes
SubtopicSpan(s) == IF IsDict(s) THEN 1 + Len(ListAt(s, "subnodes")) ELSE 1

\* the rows of the first j subtopic entries of a list
SubtopicSpanUpTo(subs, j) == SumSeq([x \in 1..j |-> SubtopicSpan(subs[x])])

\* the rows one main-topic entry accounts for
EntrySpan(e) ==
    IF IsDict(e)
    THEN 1 + SubtopicSpanUpTo(ListAt(e, "subtopics"), Len(ListAt(e, "subtopics")))
    ELSE 1

\* the rows of the first i main-topic entries
EntrySpanUpTo(ms, i) == SumSeq([x \in 1..i |-> EntrySpan(ms[x])])

\* the position of main-topic entry i in the rows, and of its subtopic j
EntryPos(ms, i) == EntrySpanUpTo(ms, i - 1) + 1
SubtopicPos(ms, i, j) ==
    EntryPos(ms, i) + SubtopicSpanUpTo(ListAt(ms[i], "subtopics"), j - 1) + 1

\* the number of a main topic as the rows and records carry it
NumberOf(v, key) == CoerceNumber(Get(v, key, EmptyStr))

Displayed == op = "display" /\ ~out.noData

----------------------------------------------------------------------------
(* Claims *)

\* C1: the rows are in depth-first pre-order.  The row of main-topic entry i
\* stands right after all rows of the entries before it; the row of its
\* subtopic j stands right after the main-topic row and all rows of the
\* subtopics before j; the rows of that subtopic's sub-nodes follow it
\* immediately, in document order; and there are no other rows.
C1_RowsInPreorder ==
    Displayed =>
        LET ms == TopEntries(doc)
            rows == out.rows
        IN /\ Len(rows) = EntrySpanUpTo(ms, Len(ms))
           /\ \A i \in 1..Len(ms) :
                 IF ~IsDict(ms[i])
                 THEN rows[EntryPos(ms, i)] = ErrorRow("Error", ms[i])
                 ELSE /\ rows[EntryPos(ms, i)] = MaintopicRow(DictAt(ms[i], "maintopic"))
                      /\ \A j \in 1..Len(ListAt(ms[i], "subtopics")) :
                            LET sub == ListAt(ms[i], "subtopics")[j]
                                q == SubtopicPos(ms, i, j)
                                num == NumberOf(DictAt(ms[i], "maintopic"), "maintopic_number")
                            IN IF ~IsDict(sub)
                               THEN rows[q] = ErrorRow("  Error", sub)
                               ELSE /\ rows[q] = SubtopicRow(num, sub)
                                    /\ \A n \in 1..Len(ListAt(sub, "subnodes")) :
                                          rows[q + n] = SubnodeRow(ListAt(sub, "subnodes")[n])

\* the Level column of the rows
Levels(rows) == [r \in 1..Len(rows) |-> rows[r].Level.s]

\* C1 witness: a table where a sub-node row precedes a sibling subtopic's row,
\* which precedes the next main topic's row
C1_Witness ==
    /\ Displayed
    /\ Levels(out.rows) = <<"Maintopic", "  Subtopic", "    Subnode", "  Subtopic", "Maintopic">>


\* C2: no call raises, whatever the kind of the value at any level of the
\* document or of course_hours (the claim as stated; the comparison
\* `course_hours > 0` of line 239 refutes it)
C2_NeverRaises == ~out.raised

\* a list without its element at position x
RemoveAt(l, x) == [y \in 1..(Len(l) - 1) |-> IF y < x THEN l[y] ELSE l[y + 1]]

\* the main-topic entries with subtopic entry j of entry i taken out
WithoutSubtopic(ms, i, j) ==
    [ms EXCEPT ![i].d["subtopics"].l = RemoveAt(@, j)]

\* C3: a subtopic entry that is no mapping gives exactly one Error row, at its
\* own position and titled with its string form, and the other rows are the
\* rows of the document without that entry: no sibling is dropped or changed.
C3_MalformedSubtopicTolerated ==
    Displayed =>
        LET ms == TopEntries(doc)
        IN \A i \in 1..Len(ms) : \A j \in 1..Len(ListAt(ms[i], "subtopics")) :
              LET sub == ListAt(ms[i], "subtopics")[j]
                  q == SubtopicPos(ms, i, j)
              IN ~IsDict(sub) =>
                    /\ q \in 1..Len(out.rows)
                    /\ out.rows[q].Level = PyStr("  Error")
                    /\ out.rows[q].Title = PyStr(IF sub = PyNone THEN "" ELSE StrOf(sub))
                    /\ RemoveAt(out.rows, q) = BuildRows(WithoutSubtopic(ms, i, j))

\* C3 witness: the string "oops" between two mapping subtopics, the first of
\* which has a sub-node
C3_Witness ==
    /\ Displayed
    /\ Levels(out.rows) = <<"Maintopic", "  Subtopic", "    Subnode", "  Error", "  Subtopic">>
    /\ out.rows[4].Title = PyStr("oops")

\* the value with its integer under key replaced by the integer's string form
AsString(v, key) == [v EXCEPT !.d[key] = PyStr(IntToStr(@.n))]

\* key holds an integer in the mapping v
HasInt(v, key) == IsDict(v) /\ key \in DOMAIN v.d /\ v.d[key].k = "int"

\* the document with the integer maintopic_number of entry i as a string
MainNumberAsString(d, i) ==
    [d EXCEPT !.d["maintopics_with_subtopics"].l[i].d["maintopic"] =
                  AsString(@, "maintopic_number")]

\* the document with the integer subtopic_number of subtopic j of entry i as a string
SubNumberAsString(d, i, j) ==
    [d EXCEPT !.d["maintopics_with_subtopics"].l[i].d["subtopics"].l[j] =
                  AsString(@, "subtopic_number")]

\* the documents that differ from d in one number, an integer in d, being its string form
NumberVariants(d) ==
    LET ms == TopEntries(d)
    IN {MainNumberAsString(d, i) :
            i \in {x \in 1..Len(ms) : HasInt(DictAt(ms[x], "maintopic"), "maintopic_number")}}
       \cup UNION {{SubNumberAsString(d, i, j) :
                       j \in {y \in 1..Len(ListAt(ms[i], "subtopics")) :
                                 HasInt(ListAt(ms[i], "subtopics")[y], "subtopic_number")}} :
                   i \in 1..Len(ms)}

\* the Number column of the rows
Numbers(rows) == [r \in 1..Len(rows) |-> rows[r].Number]

\* the numbering fields of the selector records
Numbering(records) ==
    [r \in 1..Len(records) |->
        <<records[r].maintopic_number, records[r].subtopic_number,
          records[r].full_number, records[r].display_name>>]

\* C4: a number given as the integer n or as the string form of n makes no
\* difference to the Number column of the rows nor to the maintopic_number,
\* subtopic_number, full_number and display_name of the selector records.
C4_NumberCanonical ==
    \A d2 \in NumberVariants(doc) :
        /\ Displayed =>
              Numbers(out.rows) = Numbers(BuildRows(TopEntries(d2)))
        /\ op = "subtopics" =>
              Numbering(out.records) = Numbering(extract_subtopics_from_toc(d2))
        /\ op = "subnodes" =>
              Numbering(out.records) = Numbering(extract_subnodes_from_toc(d2))

\* C4 witness: sub-node records of a document whose numbers are integers
C4_Witness ==
    /\ op = "subnodes"
    /\ Len(out.records) >= 2
    /\ Cardinality(NumberVariants(doc)) >= 2


\* the entries of a list that are no dicts
NonDicts(l) == SelectSeq(l, LAMBDA v : ~IsDict(v))

\* every main-topic entry is a mapping
AllEntriesMappings(ms) == \A i \in 1..Len(ms) : IsDict(ms[i])

\* over the mapping main-topic entries: the subtopic entries that are
\* mappings, those that are not, and the sub-nodes of the mapping subtopics
TotalSubtopics(ms) ==
    SumSeq([i \in 1..Len(ms) |-> Len(OnlyDicts(ListAt(ms[i], "subtopics")))])
TotalMalformedSubtopics(ms) ==
    SumSeq([i \in 1..Len(ms) |-> Len(NonDicts(ListAt(ms[i], "subtopics")))])
TotalSubnodes(ms) ==
    SumSeq([i \in 1..Len(ms) |->
        LET subs == OnlyDicts(ListAt(ms[i], "subtopics"))
        IN SumSeq([j \in 1..Len(subs) |-> Len(ListAt(subs[j], "subnodes"))])])

\* C5 as stated: the table of a document whose main-topic entries are all
\* mappings has 1 + subtopics + sub-nodes rows, plus one per malformed subtopic
C5_Original ==
    (Displayed /\ AllEntriesMappings(TopEntries(doc))) =>
        Len(out.rows) = 1 + TotalSubtopics(TopEntries(doc)) + TotalSubnodes(TopEntries(doc))
                          + TotalMalformedSubtopics(TopEntries(doc))

\* C5 amended: the table has one row per main-topic entry (an Error row when
\* the entry is no mapping), one per subtopic entry of the mapping main topics
\* (an Error row when it is no mapping) and one per sub-node of the mapping
\* subtopics.
C5_RowCount ==
    Displayed =>
        LET ms == TopEntries(doc)
        IN Len(out.rows) = Len(ms) + TotalSubtopics(ms) + TotalMalformedSubtopics(ms)
                             + TotalSubnodes(ms)

\* C5 witness: a table of two main topics with subtopics and sub-nodes
C5_Witness ==
    /\ Displayed
    /\ Len(OnlyDicts(TopEntries(doc))) = 2
    /\ TotalSubtopics(TopEntries(doc)) >= 2
    /\ TotalSubnodes(TopEntries(doc)) >= 1

\* the Level, Number, Title and Duration of a row
Cells(r) == <<r.Level.s, r.Number.s, r.Title, r.Duration>>

\* C6 as stated: the scenario document gives a Maintopic row numbered "1" and
\* titled "Intro", a Subtopic row "1.1" "Basics" "30 min", and the Subnode rows
\* "A" and "B"; one subtopic record, with full_number "1.1"
C6_Original ==
    doc = ScenarioDoc =>
        /\ op = "display" =>
              /\ Levels(out.rows) = <<"Maintopic", "  Subtopic", "    Subnode", "    Subnode">>
              /\ out.rows[1].Number = PyStr("1")
              /\ out.rows[1].Title = PyStr("Intro")
              /\ Cells(out.rows[2]) = <<"  Subtopic", "1.1", PyStr("Basics"), PyStr("30 min")>>
              /\ out.rows[3].Title = PyStr("A")
              /\ out.rows[4].Title = PyStr("B")
        /\ op = "subtopics" =>
              /\ Len(out.records) = 1
              /\ out.records[1].full_number = PyStr("1.1")

\* C6 amended: as stated, but the Maintopic row carries its number and title
\* in bold markup: "**1**" and "**Intro**".
C6_Scenario ==
    doc = ScenarioDoc =>
        /\ op = "display" =>
              /\ Levels(out.rows) = <<"Maintopic", "  Subtopic", "    Subnode", "    Subnode">>
              /\ out.rows[1].Number = PyStr("**1**")
              /\ out.rows[1].Title = PyStr("**Intro**")
              /\ Cells(out.rows[2]) = <<"  Subtopic", "1.1", PyStr("Basics"), PyStr("30 min")>>
              /\ out.rows[3].Title = PyStr("A")
              /\ out.rows[4].Title = PyStr("B")
        /\ op = "subtopics" =>
              /\ Len(out.records) = 1
              /\ out.records[1].full_number = PyStr("1.1")

\* C6 witness: the scenario document displayed
C6_Witness == doc = ScenarioDoc /\ op = "display" /\ Len(out.rows) = 4


\* the value under maintopics_with_subtopics, Absent when the document is no
\* mapping or has no such key
TopValue(d) ==
    IF IsDict(d) /\ "maintopics_with_subtopics" \in DOMAIN d.d
    THEN d.d["maintopics_with_subtopics"] ELSE Absent

\* the top-level list is absent, not a list, or an empty list
TopMissingOrEmpty(d) == TopValue(d).k # "list" \/ TopValue(d).l = <<>>

\* the top-level list is a list with entries, none of them a mapping
TopWithoutMappings(d) ==
    /\ TopValue(d).k = "list"
    /\ TopValue(d).l # <<>>
    /\ OnlyDicts(TopValue(d).l) = <<>>

C8_Original ==
    (op = "display" /\ doc = EmptyListDoc) =>
        /\ out.rows = <<>>
        /\ out.noData
        /\ Len(out.summary) = 1
        /\ out.summary[1].Maintopics = 0
        /\ out.summary[1].Subtopics = 0
        /\ out.summary[1].Subnodes = 0
        /\ out.summary[1].TotalNA

\* C8 amended: for {maintopics_with_subtopics: []} there are no rows and the
\* empty-document signal, and no summary is reported at all: the function
\* returns before its summary section.
C8_EmptyDocument ==
    (op = "display" /\ doc = EmptyListDoc) =>
        /\ out.rows = <<>>
        /\ out.noData
        /\ out.summary = <<>>
        /\ ~out.raised

\* C8 witness: the empty-list document displayed
C8_Witness == op = "display" /\ doc = EmptyListDoc /\ out.noData

\* the mapping main-topic entries before entry i hold this many subtopic entries
RecordsBefore(ms, i) ==
    SumSeq([x \in 1..(i - 1) |-> Len(ListAt(ms[x], "subtopics"))])

\* C9: the record of a subtopic entry that is no mapping has the entry's
\* string form as subtopic_title and the positive default 5 as duration (the
\* claim as stated; line 296 sets the duration to 0)
C9_MinimalRecordDuration ==
    op = "subtopics" =>
        LET ms == TopEntries(doc)
        IN \A i \in 1..Len(ms) : \A j \in 1..Len(ListAt(ms[i], "subtopics")) :
              LET sub == ListAt(ms[i], "subtopics")[j]
                  r == RecordsBefore(ms, i) + j
              IN ~IsDict(sub) =>
                    /\ r \in 1..Len(out.records)
                    /\ out.records[r].subtopic_title =
                           PyStr(IF sub = PyNone THEN "" ELSE StrOf(sub))
                    /\ out.records[r].duration = PyInt(5)

\* a number that is absent, or present as an integer or a non-empty string
AbsentOrPlain(v, key) ==
    \/ key \notin DOMAIN v.d
    \/ v.d[key].k = "int"
    \/ (v.d[key].k = "str" /\ v.d[key].s # "")

\* C10: the record of a mapping subtopic has display_name "{full_number} -
\* {title}" for its own full_number and subtopic_title, whichever of the main
\* topic's and the subtopic's numbers are present (the claim as stated; with
\* both numbers absent full_number is "" and display_name starts with ". - ")
C10_DisplayNameOfFullNumber ==
    op = "subtopics" =>
        LET ms == TopEntries(doc)
        IN \A i \in 1..Len(ms) : \A j \in 1..Len(ListAt(ms[i], "subtopics")) :
              LET sub == ListAt(ms[i], "subtopics")[j]
                  r == RecordsBefore(ms, i) + j
              IN (/\ IsDict(sub)
                  /\ AbsentOrPlain(DictAt(ms[i], "maintopic"), "maintopic_number")
                  /\ AbsentOrPlain(sub, "subtopic_number")) =>
                    /\ r \in 1..Len(out.records)
                    /\ out.records[r].display_name =
                           PyStr(out.records[r].full_number.s \o " - "
                                 \o StrOf(out.records[r].subtopic_title))


\* the sub-nodes of the mapping subtopics of one main-topic entry
SubnodesOfMain(e) ==
    LET subs == OnlyDicts(ListAt(e, "subtopics"))
    IN SumSeq([j \in 1..Len(subs) |-> Len(ListAt(subs[j], "subnodes"))])

\* the sub-node records that precede those of subtopic j of entry i
SubnodeRecordsBefore(ms, i, j) ==
    SumSeq([x \in 1..(i - 1) |-> SubnodesOfMain(ms[x])])
    + SumSeq([y \in 1..(j - 1) |->
          Len(ListAt(ListAt(ms[i], "subtopics")[y], "subnodes"))])

\* a number is present: the key is there and holds neither null nor ""
NumberPresent(v, key) == key \in DOMAIN v.d /\ v.d[key] \notin {PyNone, EmptyStr}

\* C11: extract_subnodes_from_toc gives no record to a subtopic that is no
\* mapping, and to each mapping subtopic one record per sub-node, in order,
\* with subnode_index the sub-node's 1-based position in its own subtopic;
\* full_number is "{maintopic_number}.{subtopic_number}.{subnode_index}" when
\* both ancestor numbers are present and "" otherwise; display_name is
\* "{full_number} - {title}" when full_number is not empty and the bare
\* sub-node title when it is.
C11_SubnodeRecords ==
    op = "subnodes" =>
        LET ms == TopEntries(doc)
        IN /\ Len(out.records) = TotalSubnodes(ms)
           /\ \A i \in 1..Len(ms) : \A j \in 1..Len(ListAt(ms[i], "subtopics")) :
                 LET sub == ListAt(ms[i], "subtopics")[j]
                     main == DictAt(ms[i], "maintopic")
                 IN \A n \in 1..Len(ListAt(sub, "subnodes")) :
                       LET rec == out.records[SubnodeRecordsBefore(ms, i, j) + n]
                           both == NumberPresent(main, "maintopic_number")
                                   /\ NumberPresent(sub, "subtopic_number")
                       IN /\ rec.subnode_index = PyInt(n)
                          /\ rec.full_number =
                                 IF both
                                 THEN PyStr(StrOf(rec.maintopic_number) \o "."
                                            \o StrOf(rec.subtopic_number) \o "."
                                            \o IntToStr(n))
                                 ELSE EmptyStr
                          /\ rec.display_name =
                                 IF rec.full_number # EmptyStr
                                 THEN PyStr(rec.full_number.s \o " - "
                                            \o StrOf(rec.subnode_title))
                                 ELSE rec.subnode_title

\* C11 witness: two subtopics with one sub-node each: the index restarts at 1
C11_Witness ==
    /\ op = "subnodes"
    /\ Len(out.records) = 2
    /\ out.records[1].full_number = PyStr("1.1.1")
    /\ out.records[2].full_number = PyStr("1.2.1")


\* the sub-nodes that are mappings, over the mapping subtopics of the mapping
\* main-topic entries
TotalMappingSubnodes(ms) ==
    SumSeq([i \in 1..Len(ms) |->
        LET subs == OnlyDicts(ListAt(ms[i], "subtopics"))
        IN SumSeq([j \in 1..Len(subs) |-> Len(OnlyDicts(ListAt(subs[j], "subnodes")))])])

\* the rows of one level
RowsOfLevel(rows, level) == SelectSeq(rows, LAMBDA r : r.Level = PyStr(level))

\* C12: the summary counts the mapping main-topic entries, the mapping
\* subtopic entries under them and the mapping sub-nodes under those; a
\* sub-node that is no mapping is left out of the count although it has its
\* Subnode row.
C12_SummaryCounts ==
    (Displayed /\ out.summary # <<>>) =>
        LET ms == TopEntries(doc)
        IN /\ out.summary[1].Maintopics = Len(OnlyDicts(ms))
           /\ out.summary[1].Subtopics = TotalSubtopics(ms)
           /\ out.summary[1].Subnodes = TotalMappingSubnodes(ms)
           /\ Len(RowsOfLevel(out.rows, "    Subnode")) = TotalSubnodes(ms)

\* C12 witness: a bare-string sub-node beside a mapping one: two Subnode rows,
\* a count of one
C12_Witness ==
    /\ Displayed
    /\ out.summary # <<>>
    /\ out.summary[1].Subnodes = 1
    /\ Len(RowsOfLevel(out.rows, "    Subnode")) = 2


\* the duration_minutes of a subtopic in tenths of a minute, 0 when it is
\* absent or no number
MinutesTenths(sub) ==
    IF "duration_minutes" \in DOMAIN sub.d /\ sub.d["duration_minutes"].k \in {"int", "float"}
    THEN (IF sub.d["duration_minutes"].k = "int"
          THEN 10 * sub.d["duration_minutes"].n ELSE sub.d["duration_minutes"].t)
    ELSE 0

\* the sum of duration_minutes over the mapping subtopics of the mapping
\* main-topic entries, in tenths of a minute
SumOfMinutes(ms) ==
    SumSeq([i \in 1..Len(ms) |->
        LET subs == OnlyDicts(ListAt(ms[i], "subtopics"))
        IN SumSeq([j \in 1..Len(subs) |-> MinutesTenths(subs[j])])])

\* course_hours in 1/600 of an hour
Hours600(h) == IF h.k = "int" THEN 600 * h.n ELSE 60 * h.t

C15_SafeStr ==
    (op = "safe_str") =>
        LET s == IF arg_value = PyNone THEN "" ELSE StrOf(arg_value)
            r == result.s
        IN /\ result.k = "str"
           /\ (arg_max_len # PyNone /\ Len(s) > arg_max_len.n) =>
                 /\ Len(r) = arg_max_len.n + 3
                 /\ \A i \in 1..arg_max_len.n : SubSeq(r, i, i) = SubSeq(s, i, i)
                 /\ SubSeq(r, arg_max_len.n + 1, arg_max_len.n + 3) = "..."
           /\ (arg_max_len = PyNone \/ Len(s) <= arg_max_len.n) => r = s
           /\ (arg_value = PyStr("abcdef") /\ arg_max_len = PyInt(3)) => r = "abc..."
           /\ (arg_value = PyInt(12345) /\ arg_max_len = PyInt(2)) => r = "12..."
           /\ (arg_value = PyBool(TRUE) /\ arg_max_len = PyInt(4)) => r = "True"
           /\ (arg_value = PyNone) => r = ""

\* C15 witness: a string longer than max_len has been cut and marked
C15_Witness ==
    /\ op = "safe_str"
    /\ arg_value = PyStr("abcde")
    /\ arg_max_len = PyInt(4)
    /\ result = PyStr("abcd...")


Filled(v, key) ==
    /\ key \in DOMAIN v.d
    /\ v.d[key] \notin {PyNone, PyStr(""), PyInt(0), PyBool(FALSE), PyList(<<>>), EmptyDict}

\* the Subnode row of sub-node n of subtopic j of main-topic entry i
SubnodeRowAt(ms, i, j, n) == out.rows[SubtopicPos(ms, i, j) + n]

\* the sub-nodes under the mapping subtopics of the mapping entries, as
\* <<i, j, n>> positions
SubnodePlaces(ms) ==
    {p \in (1..Len(ms)) \X (1..MaxEntities + 1) \X (1..MaxEntities + 1) :
        /\ IsDict(ms[p[1]])
        /\ p[2] <= Len(ListAt(ms[p[1]], "subtopics"))
        /\ IsDict(ListAt(ms[p[1]], "subtopics")[p[2]])
        /\ p[3] <= Len(ListAt(ListAt(ms[p[1]], "subtopics")[p[2]], "subnodes"))}

SubnodeAt(ms, p) == ListAt(ListAt(ms[p[1]], "subtopics")[p[2]], "subnodes")[p[3]]

\* C17 as stated: the title of a sub-node's row is its title field if that is
\* present, otherwise its name field if that is present
C17_Original ==
    Displayed =>
        \A p \in SubnodePlaces(TopEntries(doc)) :
            LET node == SubnodeAt(TopEntries(doc), p)
                row == SubnodeRowAt(TopEntries(doc), p[1], p[2], p[3])
            IN IsDict(node) =>
                  /\ "title" \in DOMAIN node.d => row.Title = node.d["title"]
                  /\ ("title" \notin DOMAIN node.d /\ "name" \in DOMAIN node.d) =>
                        row.Title = node.d["name"]

\* C17 amended: the row of a mapping sub-node has for title its title field
\* if that is there and filled (not None, not empty), otherwise its name field
\* if that is there and filled, otherwise the string form of the mapping; the
\* row of any other sub-node has the value's string form, "" for None.  The
\* duration is "<duration_minutes> min" for a mapping with a filled
\* duration_minutes and empty otherwise; Number and Description are empty.
C17_SubnodeRowFields ==
    Displayed =>
        \A p \in SubnodePlaces(TopEntries(doc)) :
            LET node == SubnodeAt(TopEntries(doc), p)
                row == SubnodeRowAt(TopEntries(doc), p[1], p[2], p[3])
            IN /\ row.Level = PyStr("    Subnode")
               /\ row.Number = PyStr("")
               /\ row.Description = PyStr("")
               /\ IsDict(node) =>
                     /\ Filled(node, "title") => row.Title = node.d["title"]
                     /\ (~Filled(node, "title") /\ Filled(node, "name")) =>
                           row.Title = node.d["name"]
                     /\ (~Filled(node, "title") /\ ~Filled(node, "name")) =>
                           row.Title = PyStr(PyRepr(node))
                     /\ Filled(node, "duration_minutes") =>
                           row.Duration = PyStr(StrOf(node.d["duration_minutes"]) \o " min")
                     /\ ~Filled(node, "duration_minutes") => row.Duration = PyStr("")
               /\ ~IsDict(node) =>
                     /\ row.Title = PyStr(IF node = PyNone THEN "" ELSE StrOf(node))
                     /\ row.Duration = PyStr("")
               /\ node = Subnode(PyStr(""), PyStr("N"), PyInt(0)) =>
                     row.Title = PyStr("N") /\ row.Duration = PyStr("")
               /\ node = Subnode(PyStr(""), Absent, Absent) =>
                     row.Title = PyStr("{'title': ''}")
               /\ node = Subnode(PyStr("T"), PyStr("N"), PyFloat(25)) =>
                     row.Title = PyStr("T") /\ row.Duration = PyStr("2.5 min")

\* C17 witness: a sub-node with an empty title and the name "N" is shown
\* under its name
C17_Witness ==
    /\ Displayed
    /\ <<1, 1, 1>> \in SubnodePlaces(TopEntries(doc))
    /\ SubnodeAt(TopEntries(doc), <<1, 1, 1>>) = Subnode(PyStr(""), PyStr("N"), PyInt(0))
    /\ SubnodeRowAt(TopEntries(doc), 1, 1, 1).Title = PyStr("N")


\* the subtopic-level rows of a table: the Subtopic rows and the Error rows
\* of subtopic entries
SubtopicLevelRows(rows) ==
    SelectSeq(rows, LAMBDA r : r.Level \in {PyStr("  Subtopic"), PyStr("  Error")})

\* the sub-node records and the Subnode rows of a document pair off in order
\* with equal titles
SubnodesAgree(rows, records) ==
    /\ Len(RowsOfLevel(rows, "    Subnode")) = Len(records)
    /\ \A k \in 1..Len(records) :
          RowsOfLevel(rows, "    Subnode")[k].Title = records[k].subnode_title

\* the subtopic records and the subtopic-level rows pair off in order
SubtopicsPairOff(rows, records) ==
    Len(SubtopicLevelRows(rows)) = Len(records)

\* C18: the three projections of a document agree.  The records of
\* extract_subnodes_from_toc pair off, in order, with the Subnode rows of
\* display_toc_hierarchical and have their titles; the records of
\* extract_subtopics_from_toc pair off, in order, with the subtopic-level rows
\* and have their titles.
C18_ProjectionsAgree ==
    Displayed =>
        /\ SubnodesAgree(out.rows, extract_subnodes_from_toc(doc))
        /\ SubtopicsPairOff(out.rows, extract_subtopics_from_toc(doc))
        /\ \A k \in 1..Len(extract_subtopics_from_toc(doc)) :
              SubtopicLevelRows(out.rows)[k].Title
                  = extract_subtopics_from_toc(doc)[k].subtopic_title


\* C19: the request-in-progress flags are False whenever no script run is
\* under way, that is at the end of every run and at the start of the next.
C19_FlagsReset ==
    (pc = "idle") => (~toc_request_in_progress /\ ~script_request_in_progress)


\* the data of a result dict, and whether its status is 200
DataOf(call) == call.result.d["data"]
Status200(call) == call.raised = "" /\ call.result.d["status_code"] = PyInt(200)

\* a TOC answer whose success field is truthy or absent
SuccessTruthyOrAbsent(data) ==
    /\ data.k = "dict"
    /\ ("success" \notin DOMAIN data.d \/ data.d["success"] = PyBool(TRUE))

\* C20 as stated: toc_response is replaced only by a TOC answer with status
\* 200 whose success is truthy or absent, script_response only by a batch
\* answer with status 200, and a Generate TOC run leaves script_response alone
C20_Original ==
    [][/\ (toc_response' # toc_response) =>
              /\ pc = "toc_sent"
              /\ Status200(last_call')
              /\ SuccessTruthyOrAbsent(DataOf(last_call'))
              /\ toc_response' = DataOf(last_call')
       /\ (pc = "toc_sent") => script_response' = script_response
       /\ (script_response' # script_response) =>
              /\ pc = "script_sent"
              /\ Status200(last_call')
              /\ script_response' = last_call'.result]_vars

\* C20 amended: a Generate TOC run replaces toc_response only by an answer
\* with status 200 whose success is truthy or absent, keeps it for every
\* other outcome, and leaves script_response alone; a Generate Scripts run
\* replaces script_response only by a batch result with status 200; the one
\* other change of either is its Clear button, which sets it to None.
C20_ResponsesFrame ==
    [][/\ (toc_response' # toc_response) =>
              \/ /\ pc = "toc_sent"
                 /\ Status200(last_call')
                 /\ SuccessTruthyOrAbsent(DataOf(last_call'))
                 /\ toc_response' = DataOf(last_call')
              \/ /\ pc = "idle"
                 /\ toc_response' = PyNone
                 /\ UNCHANGED <<script_response, last_call, pc>>
       /\ (pc = "toc_sent") => script_response' = script_response
       /\ (script_response' # script_response) =>
              \/ /\ pc = "script_sent"
                 /\ Status200(last_call')
                 /\ script_response' = last_call'.result
              \/ /\ pc = "idle"
                 /\ script_response' = PyNone
                 /\ UNCHANGED <<toc_response, last_call, pc>>]_vars

\* C20 witness: after the TOC with the null title was stored, a Generate TOC
\* run was answered with status 200 and success false, and the stored TOC is
\* still there
C20_Witness ==
    /\ pc = "idle"
    /\ last_call = Returned(200, MkDict(<<<<"success", PyBool(FALSE)>>, <<"toc", ScenarioDoc>>>>))
    /\ toc_response = MkDict(<<<<"success", Absent>>, <<"toc", NullTitleDoc>>>>)


\* the records of the stored TOC that carry one of the chosen names, in the
\* order of the TOC
ChosenSubtopics ==
    SelectSeq(extract_subtopics_from_toc(Get(toc_response, "toc", EmptyDict)),
              LAMBDA r : r.display_name \in batch.selected_subtopic_names)
ChosenSubnodes ==
    SelectSeq(extract_subnodes_from_toc(Get(toc_response, "toc", EmptyDict)),
              LAMBDA r : r.display_name \in batch.selected_subnode_names)

\* the scripts of the payload sent
SentScripts == batch.payload.d["scripts"].l

\* the head of the script_id with counter k, 1 <= k <= 9
ScriptIdHead(k) == "script_00" \o Digits[k + 1] \o "_"

\* C21: the payload sent carries "region" exactly when the state is not
\* "Pan India" and the region is not None, and then the region selected; its
\* scripts are one entry per selected subtopic followed by one per selected
\* sub-node, their script_id counters 001, 002, ... in that order.
C21_BatchPayload ==
    (pc = "script_sent") =>
        /\ ("region" \in DOMAIN batch.payload.d)
               <=> (batch.project_state # "Pan India" /\ batch.project_region # PyNone)
        /\ ("region" \in DOMAIN batch.payload.d) =>
               batch.payload.d["region"] = batch.project_region
        /\ Len(SentScripts) = Len(ChosenSubtopics) + Len(ChosenSubnodes)
        /\ \A i \in 1..Len(ChosenSubtopics) :
              /\ SentScripts[i].d["level"] = PyStr("subtopic")
              /\ SentScripts[i].d["sub_topic"] = ChosenSubtopics[i].subtopic_title
        /\ \A i \in 1..Len(ChosenSubnodes) :
              /\ SentScripts[Len(ChosenSubtopics) + i].d["level"] = PyStr("subnode")
              /\ SentScripts[Len(ChosenSubtopics) + i].d["sub_topic"]
                     = ChosenSubnodes[i].subnode_title
        /\ \A k \in 1..Len(SentScripts) :
              /\ SubSeq(SentScripts[k].d["script_id"].s, 1, 11) = ScriptIdHead(k)
              /\ SentScripts[k].d["sub_topic"] = PyStr("Py Basics") =>
                    SentScripts[k].d["script_id"].s = ScriptIdHead(k) \o "Py_Basics"

\* C21 witness: state "Pan India" with the region "North" selected, one
\* subtopic and two sub-nodes sent, and no region in the payload
C21_Witness ==
    /\ pc = "script_sent"
    /\ batch.project_state = "Pan India"
    /\ batch.project_region = PyStr("North")
    /\ "region" \notin DOMAIN batch.payload.d
    /\ Len(ChosenSubtopics) = 1
    /\ Len(ChosenSubnodes) = 2
    /\ SentScripts[3].d["script_id"] = PyStr("script_003_B")


\* C22: selection by display name is one-to-one.  The records selected are
\* exactly one per chosen name, in the subtopic and in the sub-node
\* multiselect, and the batch holds as many scripts as names were chosen.
C22_OneRecordPerName ==
    (pc = "script_sent") =>
        /\ \A name \in batch.selected_subtopic_names :
              Len(SelectSeq(ChosenSubtopics, LAMBDA r : r.display_name = name)) = 1
        /\ \A name \in batch.selected_subnode_names :
              Len(SelectSeq(ChosenSubnodes, LAMBDA r : r.display_name = name)) = 1
        /\ Len(SentScripts) = Cardinality(batch.selected_subtopic_names)
                              + Cardinality(batch.selected_subnode_names)

====
